---- MODULE Spec2Model ----
(***************************************************************************)
(* Model of code_analyzer.py: the seven line rules, blank_line_check, the  *)
(* tree walker ast_checks, the merge of the three passes in check_file,    *)
(* print_results and main.                                                 *)
(*                                                                         *)
(* A line is a sequence of one-character strings, as the file iterator     *)
(* yields it: with its trailing newline, except possibly on the last line. *)
(* A message is a record [code, text, name]: the four-character code, the  *)
(* fixed words of the message and the identifier interpolated into it.     *)
(* A dict is a sequence of [key, val] entries in insertion order.          *)
(***************************************************************************)
EXTENDS Integers, Sequences, FiniteSets, TLC

\* ------------------------------------------------------------------------
\* Characters and the character classes of the regular expressions

NL == "\n"
SP == " "

Lower == {"a","b","c","d","e","f","g","h","i","j","k","l","m",
          "n","o","p","q","r","s","t","u","v","w","x","y","z"}
Upper == {"A","B","C","D","E","F","G","H","I","J","K","L","M",
          "N","O","P","Q","R","S","T","U","V","W","X","Y","Z"}
Digit == {"0","1","2","3","4","5","6","7","8","9"}

\* \w
IsWord(c) == c \in Lower \cup Upper \cup Digit \cup {"_"}
\* \s
IsSpace(c) == c \in {SP, NL, "\t", "\r", "\f"}

ToUpper(c) ==
    CASE c = "t" -> "T" [] c = "o" -> "O" [] c = "d" -> "D" [] OTHER -> c

\* s[from..] starts with the word w
StartsAt(s, from, w) ==
    /\ from + Len(w) - 1 <= Len(s)
    /\ \A k \in 1..Len(w) : s[from + k - 1] = w[k]

\* number of leading spaces of s: len(s) - len(s.lstrip(" "))
RECURSIVE LeadingSpaces(_)
LeadingSpaces(s) ==
    IF s # <<>> /\ Head(s) = SP THEN 1 + LeadingSpaces(Tail(s)) ELSE 0

\* s.rstrip(" ")
RECURSIVE RStripSpaces(_)
RStripSpaces(s) ==
    IF s # <<>> /\ s[Len(s)] = SP THEN RStripSpaces(SubSeq(s, 1, Len(s) - 1))
    ELSE s

\* re.sub("(?s)#.*", "", s): everything from the first # on is removed,
\* the newline included
StripComment(s) ==
    IF \E i \in 1..Len(s) : s[i] = "#"
    THEN LET i == CHOOSE i \in 1..Len(s) :
                      s[i] = "#" /\ \A j \in 1..(i - 1) : s[j] # "#"
         IN SubSeq(s, 1, i - 1)
    ELSE s

\* the end of the maximal run of characters satisfying the class, from i
RECURSIVE SkipSpaces(_, _)
SkipSpaces(s, i) ==
    IF i <= Len(s) /\ s[i] = SP THEN SkipSpaces(s, i + 1) ELSE i

RECURSIVE SkipWord(_, _)
SkipWord(s, i) ==
    IF i <= Len(s) /\ IsWord(s[i]) THEN SkipWord(s, i + 1) ELSE i

\* re.findall("(?! )\w*", s): the matches, left to right.  At a position
\* holding a space the lookahead fails; elsewhere \w* matches greedily,
\* possibly the empty string; an empty match is also found at the end of s
\* and right after a non-empty match.
RECURSIVE WordMatches(_, _)
WordMatches(s, i) ==
    IF i > Len(s) + 1 THEN <<>>
    ELSE IF i <= Len(s) /\ s[i] = SP THEN WordMatches(s, i + 1)
    ELSE LET e == SkipWord(s, i)
         IN IF e > i THEN <<SubSeq(s, i, e - 1)>> \o WordMatches(s, e)
            ELSE <<(<<>>)>> \o WordMatches(s, i + 1)

\* ------------------------------------------------------------------------
\* Messages

MaxLineLength == 79

\* the codes, as the characters of the string
S001 == <<"S", "0", "0", "1">>
S002 == <<"S", "0", "0", "2">>
S003 == <<"S", "0", "0", "3">>
S004 == <<"S", "0", "0", "4">>
S005 == <<"S", "0", "0", "5">>
S006 == <<"S", "0", "0", "6">>
S007 == <<"S", "0", "0", "7">>
S008 == <<"S", "0", "0", "8">>
S009 == <<"S", "0", "0", "9">>
S010 == <<"S", "0", "1", "0">>
S011 == <<"S", "0", "1", "1">>
S012 == <<"S", "0", "1", "2">>

Msg(code, text, name) == [code |-> code, text |-> text, name |-> name]
NoName == <<>>

\* the result of a rule that returns nothing
None == <<>>
Found(ln, msg) == <<[ln |-> ln, msg |-> msg]>>

\* ------------------------------------------------------------------------
\* The line rules

line_length_check(line_number, line) ==
    IF Len(line) > MaxLineLength
    THEN Found(line_number, Msg(S001, "Too long", NoName))
    ELSE None

indentation_check(line_number, line) ==
    LET indents == LeadingSpaces(line)
    IN IF indents % 4 # 0 /\ indents # 0
       THEN Found(line_number,
                  Msg(S002, "Indentation is not a multiple of four", NoName))
       ELSE None

\* re.search(";$", s): $ matches at the end and before a final newline
EndsWithSemicolon(s) ==
    \/ Len(s) >= 1 /\ s[Len(s)] = ";"
    \/ Len(s) >= 2 /\ s[Len(s)] = NL /\ s[Len(s) - 1] = ";"

semicolon_check(line_number, line) ==
    IF EndsWithSemicolon(RStripSpaces(StripComment(line)))
    THEN Found(line_number,
               Msg(S003, "Unnecessary semicolon after a statement", NoName))
    ELSE None

\* re.findall("\S *#", line)[0] exists: a start position of a match
CommentMatchAt(line, i) ==
    /\ i \in 1..Len(line)
    /\ ~IsSpace(line[i])
    /\ SkipSpaces(line, i + 1) <= Len(line)
    /\ line[SkipSpaces(line, i + 1)] = "#"

comment_space_check(line_number, line) ==
    IF \E i \in 1..Len(line) : CommentMatchAt(line, i)
    THEN LET i == CHOOSE i \in 1..Len(line) :
                      /\ CommentMatchAt(line, i)
                      /\ \A j \in 1..(i - 1) : ~CommentMatchAt(line, j)
             \* the spaces of the match: those between line[i] and the #
             spaces == SkipSpaces(line, i + 1) - (i + 1)
         IN IF spaces < 2
            THEN Found(line_number,
                       Msg(S004,
                           "At least two spaces before inline comments required",
                           NoName))
            ELSE None
    ELSE None

\* re.search("#.*TODO", line, re.IGNORECASE)
todo_check(line_number, line) ==
    IF \E i, j \in 1..Len(line) :
          /\ line[i] = "#"
          /\ i < j
          /\ \A k \in i..(j + 3) : k <= Len(line) /\ line[k] # NL
          /\ StartsAt([k \in 1..Len(line) |-> ToUpper(line[k])], j,
                      <<"T", "O", "D", "O">>)
    THEN Found(line_number, Msg(S005, "TODO found", NoName))
    ELSE None

KwDef == <<"d", "e", "f">>
KwClass == <<"c", "l", "a", "s", "s">>

\* re.match("^ *(def|class)", line)
StartsWithConstruction(line) ==
    LET i == LeadingSpaces(line) + 1
    IN StartsAt(line, i, KwDef) \/ StartsAt(line, i, KwClass)

\* re.match("^ *(def|class) [\w]", line)
ConstructionThenOneSpace(line) ==
    LET i == LeadingSpaces(line) + 1
    IN \E kw \in {KwDef, KwClass} :
          /\ StartsAt(line, i, kw)
          /\ i + Len(kw) + 1 <= Len(line)
          /\ line[i + Len(kw)] = SP
          /\ IsWord(line[i + Len(kw) + 1])

construction_space_check(line_number, line) ==
    IF StartsWithConstruction(line)
    THEN LET construction_name == WordMatches(line, 1)[1]
         IN IF ~ConstructionThenOneSpace(line)
            THEN Found(line_number,
                       Msg(S007, "Too many spaces after", construction_name))
            ELSE None
    ELSE None

\* re.sub("^__|__$", "", name)
StripDunder(name) ==
    LET a == IF StartsAt(name, 1, <<"_", "_">>)
             THEN SubSeq(name, 3, Len(name)) ELSE name
    IN IF Len(a) >= 2 /\ a[Len(a)] = "_" /\ a[Len(a) - 1] = "_"
       THEN SubSeq(a, 1, Len(a) - 2) ELSE a

\* re.match("^[A-Z][A-Za-z]*$", name)
IsCamelCase(name) ==
    /\ name # <<>>
    /\ name[1] \in Upper
    /\ \A k \in 2..Len(name) : name[k] \in Upper \cup Lower

class_case_check(line_number, line) ==
    IF StartsAt(line, 1, KwClass)
    THEN LET class_name == StripDunder(WordMatches(line, 1)[2])
         IN IF ~IsCamelCase(class_name)
            THEN Found(line_number,
                       Msg(S008, "Class name should use CamelCase", class_name))
            ELSE None
    ELSE None

\* ------------------------------------------------------------------------
\* Dicts: sequences of entries [key, val] in insertion order

DictHas(d, ln) == \E i \in 1..Len(d) : d[i].key = ln

DictGet(d, ln) == d[CHOOSE i \in 1..Len(d) : d[i].key = ln].val

\* d[ln] = val: an existing key keeps its position and loses its old value
DictSet(d, ln, val) ==
    IF DictHas(d, ln)
    THEN [i \in 1..Len(d) |-> IF d[i].key = ln THEN [key |-> ln, val |-> val]
                                               ELSE d[i]]
    ELSE Append(d, [key |-> ln, val |-> val])

\* ------------------------------------------------------------------------
\* blank_line_check

\* re.match("^\s*$", line)
IsBlank(line) == \A k \in 1..Len(line) : IsSpace(line[k])

MsgBlank == Msg(S006, "More than two blank lines used before this line", NoName)

\* BlankStep counting one blank line less: a run of two is flagged
BlankStepOffByOne(st, i, line) ==
    IF st.num_blanks < 2
    THEN IF IsBlank(line)
         THEN [st EXCEPT !.num_blanks = @ + 1]
         ELSE [st EXCEPT !.num_blanks = 0]
    ELSE IF ~IsBlank(line)
         THEN [num_blanks |-> 0,
               blanks_dict |-> DictSet(st.blanks_dict, i, MsgBlank)]
         ELSE st

\* the loop body for the line at index i (line_number = i - 1), from the
\* state st = [num_blanks, blanks_dict]
BlankStep(st, i, line) ==
    IF st.num_blanks <= 2
    THEN IF IsBlank(line)
         THEN [st EXCEPT !.num_blanks = @ + 1]
         ELSE [st EXCEPT !.num_blanks = 0]
    ELSE IF ~IsBlank(line)
         THEN [num_blanks |-> 0,
               blanks_dict |-> DictSet(st.blanks_dict, i, MsgBlank)]
         ELSE st

RECURSIVE BlankLoop(_, _, _)
BlankLoop(file, i, st) ==
    IF i > Len(file) THEN st
    ELSE BlankLoop(file, i + 1, BlankStep(st, i, file[i]))

blank_line_check(file) ==
    BlankLoop(file, 1, [num_blanks |-> 0, blanks_dict |-> <<>>]).blanks_dict

\* ------------------------------------------------------------------------
\* Syntax trees.  A node is [type, lineno, name, kids, n]: kids are the
\* child nodes in the order of ast.iter_child_nodes, and n splits them
\* (arguments: the first n kids are args, the rest defaults; Assign: the
\* first n kids are targets, the last is the value).  Context nodes
\* (Load, Store) are left out: the walker matches none of them.

Node(type, lineno, name, kids, n) ==
    [type |-> type, lineno |-> lineno, name |-> name, kids |-> kids, n |-> n]

Module(body) == Node("Module", 0, NoName, body, 0)
FunctionDef(name, lineno, arguments, body) ==
    Node("FunctionDef", lineno, name, <<arguments>> \o body, 0)
ClassDef(name, lineno, body) == Node("ClassDef", lineno, name, body, 0)
Arguments(args, defaults) ==
    Node("arguments", 0, NoName, args \o defaults, Len(args))
Arg(name, lineno) == Node("arg", lineno, name, <<>>, 0)
Assign(targets, value, lineno) ==
    Node("Assign", lineno, NoName, targets \o <<value>>, Len(targets))
ExprStmt(value, lineno) == Node("Expr", lineno, NoName, <<value>>, 0)
Pass(lineno) == Node("Pass", lineno, NoName, <<>>, 0)
Name(id, lineno) == Node("Name", lineno, id, <<>>, 0)
Constant(lineno) == Node("Constant", lineno, NoName, <<>>, 0)
ListLit(lineno) == Node("List", lineno, NoName, <<>>, 0)
DictLit(lineno) == Node("Dict", lineno, NoName, <<>>, 0)
SetLit(elts, lineno) == Node("Set", lineno, NoName, elts, 0)
Attribute(value, lineno) == Node("Attribute", lineno, NoName, <<value>>, 0)
TupleNode(elts, lineno) == Node("Tuple", lineno, NoName, elts, 0)
Lambda(arguments, body, lineno) ==
    Node("Lambda", lineno, NoName, <<arguments, body>>, 0)

\* node.args, node.defaults of an arguments node; var.targets of an Assign
ArgsOf(node) == SubSeq(node.kids, 1, node.n)
DefaultsOf(node) == SubSeq(node.kids, node.n + 1, Len(node.kids))
TargetsOf(node) == SubSeq(node.kids, 1, node.n)

\* ------------------------------------------------------------------------
\* ast_checks

\* re.match("^[a-z0-9_]+$", name)
snake_case(name) ==
    /\ name # <<>>
    /\ \A k \in 1..Len(name) : name[k] \in Lower \cup Digit \cup {"_"}

function_case_check(d, func) ==
    IF ~snake_case(func.name)
    THEN DictSet(d, func.lineno,
                 Msg(S009, "Function name should use snake_case", func.name))
    ELSE d

argument_case_check(d, agm) ==
    IF ~snake_case(agm.name)
    THEN DictSet(d, agm.lineno,
                 Msg(S010, "Argument name should be snake_case", agm.name))
    ELSE d

\* var.targets[0].id raises AttributeError unless the target is a Name
variable_case_check(d, var) ==
    IF TargetsOf(var)[1].type = "Name" /\ ~snake_case(TargetsOf(var)[1].name)
    THEN DictSet(d, var.lineno,
                 Msg(S011, "Variable name should use snake_case",
                     TargetsOf(var)[1].name))
    ELSE d

IsMutable(dval) == dval.type \in {"List", "Set", "Dict"}

\* defval_multability_check with the code of the variable rule
DefvalCheckOtherCode(d, dval) ==
    IF IsMutable(dval)
    THEN DictSet(d, dval.lineno,
                 Msg(S011, "Default argument value is mutable", NoName))
    ELSE d

defval_multability_check(d, dval) ==
    IF IsMutable(dval)
    THEN DictSet(d, dval.lineno,
                 Msg(S012, "Default argument value is mutable", NoName))
    ELSE d

\* for arg in node.args: argument_case_check(arg)
RECURSIVE ArgsLoop(_, _)
ArgsLoop(d, args) ==
    IF args = <<>> THEN d
    ELSE ArgsLoop(argument_case_check(d, Head(args)), Tail(args))

\* for defval in node.defaults: if defval_multability_check(defval): break
RECURSIVE DefaultsLoop(_, _)
DefaultsLoop(d, defaults) ==
    IF defaults = <<>> THEN d
    ELSE IF IsMutable(Head(defaults))
         THEN defval_multability_check(d, Head(defaults))
         ELSE DefaultsLoop(defval_multability_check(d, Head(defaults)),
                           Tail(defaults))

\* the body of the loop over ast.walk(tree)
Visit(d, node) ==
    CASE node.type = "FunctionDef" -> function_case_check(d, node)
      [] node.type = "arguments" ->
            DefaultsLoop(ArgsLoop(d, ArgsOf(node)), DefaultsOf(node))
      [] node.type = "Assign" -> variable_case_check(d, node)
      [] OTHER -> d

\* ast.walk: breadth first, from a queue of the nodes still to visit
RECURSIVE Walk(_, _)
Walk(todo, d) ==
    IF todo = <<>> THEN d
    ELSE Walk(Tail(todo) \o Head(todo).kids, Visit(d, Head(todo)))

ast_checks(tree) == Walk(<<tree>>, <<>>)

\* ------------------------------------------------------------------------
\* The files analysed.  A statement is [lines, nodes, ok]: its lines without
\* their newline, the node ast.parse builds for it (none for a comment or a
\* blank line) with line numbers counted from the statement's first line,
\* and whether it parses.  A file is a sequence of statements and the flag
\* eofnl: whether its last line ends with a newline.

Stmt(lines, nodes, ok) == [lines |-> lines, nodes |-> nodes, ok |-> ok]

\* a name of n characters
LongName(n) == [i \in 1..n |-> "a"]
StLong(n) == Stmt(<<LongName(n)>>, <<ExprStmt(Name(LongName(n), 1), 1)>>, TRUE)

StAssign ==
    Stmt(<<<<"x", " ", "=", " ", "1">>>>,
         <<Assign(<<Name(<<"x">>, 1)>>, Constant(1), 1)>>,
         TRUE)

StAssignBad ==
    Stmt(<<<<"X", " ", "=", " ", "1">>>>,
         <<Assign(<<Name(<<"X">>, 1)>>, Constant(1), 1)>>,
         TRUE)

StAttribute ==
    Stmt(<<<<"X", ".", "y", " ", "=", " ", "1">>>>,
         <<Assign(<<Attribute(Name(<<"X">>, 1), 1)>>, Constant(1), 1)>>,
         TRUE)

StMyFunc ==
    Stmt(<<<<"d", "e", "f", " ", "m", "y", "F", "u", "n", "c", "(", "X", "=", "[", "]", ")", ":">>,
         <<" ", " ", " ", " ", "p", "a", "s", "s">>>>,
         <<FunctionDef(<<"m", "y", "F", "u", "n", "c">>, 1, Arguments(<<Arg(<<"X">>, 1)>>, <<ListLit(1)>>), <<Pass(2)>>)>>,
         TRUE)

StTwoDefaults ==
    Stmt(<<<<"d", "e", "f", " ", "f", "(", "a", "=", "[", "]", ",">>,
         <<" ", " ", " ", " ", " ", " ", "b", "=", "{", "}", ")", ":">>,
         <<" ", " ", " ", " ", "p", "a", "s", "s">>>>,
         <<FunctionDef(<<"f">>, 1, Arguments(<<Arg(<<"a">>, 1), Arg(<<"b">>, 2)>>, <<ListLit(1), DictLit(2)>>), <<Pass(3)>>)>>,
         TRUE)

StLaterDefaults ==
    Stmt(<<<<"d", "e", "f", " ", "f", "(", "A", "=", "1", ",">>,
         <<" ", " ", " ", " ", " ", " ", "b", "=", "{", "}", ",", " ", "c", "=", "[", "]", ")", ":">>,
         <<" ", " ", " ", " ", "p", "a", "s", "s">>>>,
         <<FunctionDef(<<"f">>, 1, Arguments(<<Arg(<<"A">>, 1), Arg(<<"b">>, 2), Arg(<<"c">>, 2)>>, <<Constant(1), DictLit(2), ListLit(2)>>), <<Pass(3)>>)>>,
         TRUE)

StInlineBody ==
    Stmt(<<<<"d", "e", "f", " ", "f", "(", "x", "=", "[", "]", ")", ":", " ", "Y", " ", "=", " ", "1">>>>,
         <<FunctionDef(<<"f">>, 1, Arguments(<<Arg(<<"x">>, 1)>>, <<ListLit(1)>>), <<Assign(<<Name(<<"Y">>, 1)>>, Constant(1), 1)>>)>>,
         TRUE)

StDefSpaces ==
    Stmt(<<<<"d", "e", "f", " ", " ", "f", "(", ")", ":">>,
         <<" ", " ", " ", " ", "p", "a", "s", "s">>>>,
         <<FunctionDef(<<"f">>, 1, Arguments(<<>>, <<>>), <<Pass(2)>>)>>,
         TRUE)

StDefInline ==
    Stmt(<<<<"d", "e", "f", " ", " ", "F", "(", ")", ":", " ", "p", "a", "s", "s">>>>,
         <<FunctionDef(<<"F">>, 1, Arguments(<<>>, <<>>), <<Pass(1)>>)>>,
         TRUE)

StDefault ==
    Stmt(<<<<"d", "e", "f", "a", "u", "l", "t", " ", "=", " ", "1">>>>,
         <<Assign(<<Name(<<"d", "e", "f", "a", "u", "l", "t">>, 1)>>, Constant(1), 1)>>,
         TRUE)

StClassBad ==
    Stmt(<<<<"c", "l", "a", "s", "s", " ", "m", "y", "_", "c", "l", "a", "s", "s", ":">>,
         <<" ", " ", " ", " ", "p", "a", "s", "s">>>>,
         <<ClassDef(<<"m", "y", "_", "c", "l", "a", "s", "s">>, 1, <<Pass(2)>>)>>,
         TRUE)

StClassSpaces ==
    Stmt(<<<<"c", "l", "a", "s", "s", " ", " ", "M", "y", "C", "l", "a", "s", "s", ":">>,
         <<" ", " ", " ", " ", "p", "a", "s", "s">>>>,
         <<ClassDef(<<"M", "y", "C", "l", "a", "s", "s">>, 1, <<Pass(2)>>)>>,
         TRUE)

StComment ==
    Stmt(<<<<"#", "#", " ", "n", "o", "t", "e">>>>,
         <<>>,
         TRUE)

StCommentIndented ==
    Stmt(<<<<" ", " ", "#", " ", "c">>>>,
         <<>>,
         TRUE)

StInlineComment ==
    Stmt(<<<<"x", " ", "=", " ", "1", " ", "#", " ", "a">>>>,
         <<Assign(<<Name(<<"x">>, 1)>>, Constant(1), 1)>>,
         TRUE)

StTodo ==
    Stmt(<<<<"x", " ", "=", " ", "1", ";", " ", " ", "#", " ", "T", "O", "D", "O", " ", "f", "i", "x">>>>,
         <<Assign(<<Name(<<"x">>, 1)>>, Constant(1), 1)>>,
         TRUE)

StMalformed ==
    Stmt(<<<<"d", "e", "f", " ", "(", ":">>>>,
         <<>>,
         FALSE)

StBlank ==
    Stmt(<<<<>>>>,
         <<>>,
         TRUE)

StSpaces ==
    Stmt(<<<<" ">>>>,
         <<>>,
         TRUE)

\* the statements files are built from
Statements ==
    {StAssign, StAssignBad, StAttribute, StMyFunc, StTwoDefaults,
     StLaterDefaults, StInlineBody, StDefSpaces, StDefInline, StDefault,
     StClassBad,
     StClassSpaces, StComment, StCommentIndented, StInlineComment, StTodo,
     StMalformed, StBlank, StSpaces,
     StLong(MaxLineLength - 1), StLong(MaxLineLength),
     StLong(MaxLineLength + 1)}

\* the statements of the files that exercise runs of blank lines
BlankRunStatements == {StBlank, StSpaces, StDefInline}

MaxStmts == 2
MaxBlankLines == 6
MaxFiles == 2

SeqsUpTo(S, n) == UNION {[1..k -> S] : k \in 0..n}

File(stmts, eofnl) == [stmts |-> stmts, eofnl |-> eofnl]

Files ==
    {File(st, nl) : st \in SeqsUpTo(Statements, MaxStmts)
                           \cup SeqsUpTo(BlankRunStatements, MaxBlankLines),
                    nl \in BOOLEAN}

\* the files of the directory listings
DirFiles ==
    {File(<<StMalformed>>, TRUE), File(<<StAssign>>, TRUE),
     File(<<StBlank, StMyFunc>>, TRUE),
     File(<<StTwoDefaults, StBlank, StBlank, StBlank, StDefInline>>, FALSE)}

\* the lines of the statements, one after the other
RECURSIVE StmtLines(_)
StmtLines(stmts) ==
    IF stmts = <<>> THEN <<>>
    ELSE Head(stmts).lines \o StmtLines(Tail(stmts))

\* what iterating over the open file yields: every line with its newline,
\* except the last one when the file does not end with a newline (and then
\* an empty last line is no line at all)
FileLines(f) ==
    LET raw == StmtLines(f.stmts)
        n == Len(raw)
    IN IF n = 0 THEN <<>>
       ELSE IF f.eofnl THEN [i \in 1..n |-> Append(raw[i], NL)]
       ELSE IF raw[n] = <<>> THEN [i \in 1..(n - 1) |-> Append(raw[i], NL)]
       ELSE [i \in 1..n |-> IF i < n THEN Append(raw[i], NL) ELSE raw[i]]

\* a node and its descendants moved down by k lines
RECURSIVE Shift(_, _)
Shift(node, k) ==
    [node EXCEPT !.lineno = IF @ = 0 THEN 0 ELSE @ + k,
                 !.kids = [i \in 1..Len(node.kids) |-> Shift(node.kids[i], k)]]

RECURSIVE StmtNodes(_, _)
StmtNodes(stmts, k) ==
    IF stmts = <<>> THEN <<>>
    ELSE [i \in 1..Len(Head(stmts).nodes) |-> Shift(Head(stmts).nodes[i], k)]
         \o StmtNodes(Tail(stmts), k + Len(Head(stmts).lines))

\* ast.parse(file.read()): raises SyntaxError on a malformed statement
Parses(f) == \A i \in 1..Len(f.stmts) : f.stmts[i].ok
Parse(f) == Module(StmtNodes(f.stmts, 0))

\* ------------------------------------------------------------------------
\* check_file

\* Merge storing a new list in place of the one already there
MergeReplace(d, ln, msg) == DictSet(d, ln, <<msg>>)

\* try: errors_in_file[ln]  except KeyError: errors_in_file[ln] = []
\* finally: errors_in_file[ln].append(msg)
Merge(d, ln, msg) ==
    LET d1 == IF DictHas(d, ln) THEN d ELSE DictSet(d, ln, <<>>)
    IN DictSet(d1, ln, Append(DictGet(d1, ln), msg))

\* for ln, msg in items.items(): merge
RECURSIVE MergeAll(_, _)
MergeAll(d, items) ==
    IF items = <<>> THEN d
    ELSE MergeAll(Merge(d, Head(items).key, Head(items).val), Tail(items))

NumChecks == 7

\* the k-th of the checks, in the order of the list check_file loops over
Check(k, line_number, line) ==
    CASE k = 1 -> line_length_check(line_number, line)
      [] k = 2 -> indentation_check(line_number, line)
      [] k = 3 -> semicolon_check(line_number, line)
      [] k = 4 -> comment_space_check(line_number, line)
      [] k = 5 -> todo_check(line_number, line)
      [] k = 6 -> construction_space_check(line_number, line)
      [] k = 7 -> class_case_check(line_number, line)

\* the inner loop: a check that returns nothing raises TypeError on the
\* unpacking and the loop continues
RECURSIVE ChecksLoop(_, _, _, _)
ChecksLoop(d, k, line_number, line) ==
    IF k > NumChecks THEN d
    ELSE LET r == Check(k, line_number, line)
         IN ChecksLoop(IF r = None THEN d ELSE Merge(d, r[1].ln, r[1].msg),
                       k + 1, line_number, line)

RECURSIVE LinesLoop(_, _, _)
LinesLoop(d, lines, i) ==
    IF i > Len(lines) THEN d
    ELSE LinesLoop(ChecksLoop(d, 1, i, lines[i]), lines, i + 1)

\* ------------------------------------------------------------------------
\* print_results

\* the characters in the order of their code points
Ascii ==
    <<" ", "0", "1", "2", "3", "4", "5", "6", "7", "8", "9",
      "A", "B", "C", "D", "E", "F", "G", "H", "I", "J", "K", "L", "M",
      "N", "O", "P", "Q", "R", "S", "T", "U", "V", "W", "X", "Y", "Z", "_",
      "a", "b", "c", "d", "e", "f", "g", "h", "i", "j", "k", "l", "m",
      "n", "o", "p", "q", "r", "s", "t", "u", "v", "w", "x", "y", "z">>

Ord(c) == CHOOSE i \in 1..Len(Ascii) : Ascii[i] = c

\* a < b for strings
RECURSIVE StrLess(_, _)
StrLess(a, b) ==
    IF b = <<>> THEN FALSE
    ELSE IF a = <<>> THEN TRUE
    ELSE IF Head(a) # Head(b) THEN Ord(Head(a)) < Ord(Head(b))
    ELSE StrLess(Tail(a), Tail(b))

\* the message as the string compared by sorted(): the code, a space, and
\* the words of the message, which the code determines up to the name
Render(msg) == msg.code \o <<SP>> \o msg.name

MsgLess(a, b) == StrLess(Render(a), Render(b))

KeyLess(a, b) == a.key < b.key

\* the lines printed for one file
RECURSIVE PrintErrors(_, _, _)
PrintErrors(path, line, error_list) ==
    IF error_list = <<>> THEN <<>>
    ELSE <<[path |-> path, line |-> line, error |-> Head(error_list)]>>
         \o PrintErrors(path, line, Tail(error_list))

RECURSIVE PrintLines(_, _)
PrintLines(path, items) ==
    IF items = <<>> THEN <<>>
    ELSE PrintErrors(path, Head(items).key, SortSeq(Head(items).val, MsgLess))
         \o PrintLines(path, Tail(items))

\* PrintFile going through the dict in insertion order
PrintFileUnsorted(path, errors_dict) == PrintLines(path, errors_dict)

PrintFile(path, errors_dict) == PrintLines(path, SortSeq(errors_dict, KeyLess))

RECURSIVE print_results(_)
print_results(errors) ==
    IF errors = <<>> THEN <<>>
    ELSE PrintFile(Head(errors).key, Head(errors).val)
         \o print_results(Tail(errors))

\* ------------------------------------------------------------------------
\* main: the state

VARIABLES
    listing,         \* the entries main goes through: [py, file]
    idx,             \* the entry main is at; it is also the entry's path
    pc,              \* where the run is
    errors_in_file,  \* check_file's dict: line number -> list of messages
    all_errors,      \* main's dict: path -> errors_in_file of that file
    output           \* the lines printed

vars == <<listing, idx, pc, errors_in_file, all_errors, output>>

Entry(py, file) == [py |-> py, file |-> file]

\* a path ending in .py names one file; any other path names a directory,
\* whose entries may or may not end in .py
Listings ==
    {<<Entry(TRUE, f)>> : f \in Files}
    \cup {[i \in 1..Len(fs) |-> Entry(fs[i][1], fs[i][2])] :
             fs \in SeqsUpTo(BOOLEAN \X DirFiles, MaxFiles)}

Init ==
    /\ listing \in Listings
    /\ idx = 1
    /\ pc = "main"
    /\ errors_in_file = <<>>
    /\ all_errors = <<>>
    /\ output = <<>>

CurrentFile == listing[idx].file

\* main, lines 185-186 and 189-192: open the next .py entry, call check_file
OpenFile ==
    /\ pc = "main"
    /\ idx <= Len(listing)
    /\ listing[idx].py
    /\ errors_in_file' = <<>>
    /\ pc' = "line_rules"
    /\ UNCHANGED <<listing, idx, all_errors, output>>

\* main, line 190: an entry that does not end in .py is passed over
SkipEntry ==
    /\ pc = "main"
    /\ idx <= Len(listing)
    /\ ~listing[idx].py
    /\ idx' = idx + 1
    /\ UNCHANGED <<listing, pc, errors_in_file, all_errors, output>>

\* check_file, lines 131-143
LineRules ==
    /\ pc = "line_rules"
    /\ errors_in_file' = LinesLoop(errors_in_file, FileLines(CurrentFile), 1)
    /\ pc' = "blank_lines"
    /\ UNCHANGED <<listing, idx, all_errors, output>>

\* check_file, lines 144-152
BlankLines ==
    /\ pc = "blank_lines"
    /\ errors_in_file' =
          MergeAll(errors_in_file, blank_line_check(FileLines(CurrentFile)))
    /\ pc' = "ast"
    /\ UNCHANGED <<listing, idx, all_errors, output>>

\* check_file, lines 153-161, when ast.parse returns a tree
AstErrors ==
    /\ pc = "ast"
    /\ Parses(CurrentFile)
    /\ errors_in_file' = MergeAll(errors_in_file, ast_checks(Parse(CurrentFile)))
    /\ pc' = "return"
    /\ UNCHANGED <<listing, idx, all_errors, output>>

\* ParseFailure with the exception swallowed: check_file returns what the
\* first two passes stored
ParseFailureSwallowed ==
    /\ pc = "ast"
    /\ ~Parses(CurrentFile)
    /\ pc' = "return"
    /\ UNCHANGED <<listing, idx, errors_in_file, all_errors, output>>

\* check_file, line 154, when ast.parse raises: nothing in check_file or
\* main catches the exception, and the run ends
ParseFailure ==
    /\ pc = "ast"
    /\ ~Parses(CurrentFile)
    /\ pc' = "raised"
    /\ UNCHANGED <<listing, idx, errors_in_file, all_errors, output>>

\* check_file, line 163, and main, lines 186 and 192
Return ==
    /\ pc = "return"
    /\ all_errors' = DictSet(all_errors, idx, errors_in_file)
    /\ idx' = idx + 1
    /\ pc' = "main"
    /\ UNCHANGED <<listing, errors_in_file, output>>

\* main, lines 187 and 193
PrintResults ==
    /\ pc = "main"
    /\ idx > Len(listing)
    /\ output' = print_results(all_errors)
    /\ pc' = "done"
    /\ UNCHANGED <<listing, idx, errors_in_file, all_errors>>

Next ==
    \/ OpenFile
    \/ SkipEntry
    \/ LineRules
    \/ BlankLines
    \/ AstErrors
    \/ ParseFailure
    \/ Return
    \/ PrintResults

Spec == Init /\ [][Next]_vars

\* ------------------------------------------------------------------------
\* Vocabulary of the properties

\* the messages stored for line n
MsgsAt(d, n) == IF DictHas(d, n) THEN DictGet(d, n) ELSE <<>>

HasCode(d, n, code) ==
    \E j \in 1..Len(MsgsAt(d, n)) : MsgsAt(d, n)[j].code = code

HasText(d, n, text) ==
    \E j \in 1..Len(MsgsAt(d, n)) : MsgsAt(d, n)[j].text = text

CountText(d, n, text) ==
    Cardinality({j \in 1..Len(MsgsAt(d, n)) : MsgsAt(d, n)[j].text = text})

TextFunction == "Function name should use snake_case"
TextArgument == "Argument name should be snake_case"
TextVariable == "Variable name should use snake_case"
TextMutable == "Default argument value is mutable"

\* the line without its trailing newline
Content(line) ==
    IF line # <<>> /\ line[Len(line)] = NL
    THEN SubSeq(line, 1, Len(line) - 1) ELSE line

CurrentLines == FileLines(CurrentFile)
LineNumbers == 1..Len(CurrentLines)

\* check_file is past its first, second, third pass on the current file
AfterLineRules == pc \in {"blank_lines", "ast", "return", "raised"}
AfterBlankLines == pc \in {"ast", "return", "raised"}
AfterAst == pc = "return"

\* the function definitions among the statements of the current file
Functions ==
    {f \in {Parse(CurrentFile).kids[i] : i \in 1..Len(Parse(CurrentFile).kids)} :
        f.type = "FunctionDef"}

MutableDefaults(f) ==
    {k \in 1..Len(DefaultsOf(f.kids[1])) : IsMutable(DefaultsOf(f.kids[1])[k])}

LeftmostMutable(f) ==
    DefaultsOf(f.kids[1])[CHOOSE k \in MutableDefaults(f) :
                              \A m \in MutableDefaults(f) : k <= m]

\* C1: for every file, the lines print_results prints are non-decreasing
\* in line number, and two printed for the same line number come in
\* ascending order of their code.
C1_OutputOrdered ==
    pc = "done" =>
        \A i, j \in 1..Len(output) :
            i < j /\ output[i].path = output[j].path =>
                /\ output[i].line <= output[j].line
                /\ output[i].line = output[j].line =>
                      ~StrLess(output[j].error.code, output[i].error.code)

\* a file was printed whose dict held its lines out of order and, for one
\* line, its messages out of order
C1_Witness ==
    /\ pc = "done"
    /\ \E e \in 1..Len(all_errors) :
          LET d == all_errors[e].val
          IN /\ \E k \in 1..(Len(d) - 1) : d[k].key > d[k + 1].key
             /\ \E k \in 1..Len(d) : \E m \in 1..(Len(d[k].val) - 1) :
                   StrLess(d[k].val[m + 1].code, d[k].val[m].code)
             /\ \E k \in 1..Len(output) : output[k].path = all_errors[e].key

\* C2: line n is flagged with S006 exactly when it is not blank and the
\* three lines before it are blank, and it is flagged at most once.
C2_BlankRuns ==
    AfterBlankLines =>
        \A n \in LineNumbers :
            /\ HasCode(errors_in_file, n, S006) <=>
                  /\ ~IsBlank(CurrentLines[n])
                  /\ n >= 4
                  /\ \A m \in (n - 3)..(n - 1) : IsBlank(CurrentLines[m])
            /\ CountText(errors_in_file, n, MsgBlank.text) <= 1

\* a line after a run of four blank lines is flagged, in a file that also
\* ends in a run of blank lines
C2_Witness ==
    /\ AfterBlankLines
    /\ \E n \in LineNumbers :
          /\ n >= 5
          /\ \A m \in (n - 4)..(n - 1) : IsBlank(CurrentLines[m])
          /\ HasCode(errors_in_file, n, S006)
          /\ n < Len(CurrentLines)
          /\ IsBlank(CurrentLines[Len(CurrentLines)])

\* C3: a one-line function header with a name and an argument name that
\* are not snake_case and a mutable default gets three diagnostics from the
\* tree walker on its line: one for each.
C3_ThreeDiagnostics ==
    AfterAst =>
        \A f \in Functions :
            (/\ ~snake_case(f.name)
             /\ \E a \in 1..Len(ArgsOf(f.kids[1])) :
                   /\ ArgsOf(f.kids[1])[a].lineno = f.lineno
                   /\ ~snake_case(ArgsOf(f.kids[1])[a].name)
             /\ Len(ArgsOf(f.kids[1])) = 1
             /\ Len(DefaultsOf(f.kids[1])) = 1
             /\ MutableDefaults(f) # {}
             /\ LeftmostMutable(f).lineno = f.lineno)
            => /\ CountText(errors_in_file, f.lineno, TextFunction) = 1
               /\ CountText(errors_in_file, f.lineno, TextArgument) = 1
               /\ CountText(errors_in_file, f.lineno, TextMutable) = 1

\* C4: S001 is produced for a line exactly when the line, without its
\* trailing newline, is longer than 79 characters.
C4_TooLong ==
    AfterLineRules =>
        \A n \in LineNumbers :
            HasCode(errors_in_file, n, S001)
                <=> Len(Content(CurrentLines[n])) > MaxLineLength

C6_ParseFailure ==
    \A i \in 1..Len(listing) :
        listing[i].py /\ ~Parses(listing[i].file) =>
            /\ ~DictHas(all_errors, i)
            /\ \A k \in 1..Len(output) : output[k].path # i
            /\ idx <= i
            /\ ~(idx = i /\ pc = "return")
            /\ pc # "done"

\* the second file of a directory fails to parse after the first two passes
\* stored diagnostics for it
C6_Witness ==
    /\ pc = "raised"
    /\ idx = 2
    /\ errors_in_file # <<>>
    /\ all_errors # <<>>

\* C7: a line whose first non-space character is # gets no S004.
C7_CommentLine ==
    AfterLineRules =>
        \A n \in LineNumbers :
            LET line == CurrentLines[n]
                i == LeadingSpaces(line) + 1
            IN i <= Len(line) /\ line[i] = "#"
                  => ~HasCode(errors_in_file, n, S004)

\* C8: S007 is produced for a line exactly when, after its leading spaces,
\* it starts with def or class followed by more than one space and then the
\* identifier.
C8_ConstructionSpaces ==
    AfterLineRules =>
        \A n \in LineNumbers :
            LET line == CurrentLines[n]
                i == LeadingSpaces(line) + 1
            IN HasCode(errors_in_file, n, S007) <=>
                  \E kw \in {KwDef, KwClass} :
                      /\ StartsAt(line, i, kw)
                      /\ SkipSpaces(line, i + Len(kw)) > i + Len(kw) + 1
                      /\ SkipSpaces(line, i + Len(kw)) <= Len(line)
                      /\ IsWord(line[SkipSpaces(line, i + Len(kw))])

\* C9: for a function with mutable defaults, the walker's diagnostics hold
\* the mutable-default diagnostic on the line of the leftmost one, and none
\* on the line of any later one.
C9_FirstMutableOnly ==
    AfterAst =>
        \A f \in Functions :
            MutableDefaults(f) # {} =>
                /\ HasText(errors_in_file, LeftmostMutable(f).lineno, TextMutable)
                /\ \A k \in MutableDefaults(f) :
                      LET dv == DefaultsOf(f.kids[1])[k]
                      IN dv.lineno # LeftmostMutable(f).lineno
                            => ~HasText(errors_in_file, dv.lineno, TextMutable)

\* the messages the line rules return for line n, in the order of the checks
RECURSIVE LineRuleMsgs(_, _)
LineRuleMsgs(n, k) ==
    IF k > NumChecks THEN <<>>
    ELSE LET r == Check(k, n, CurrentLines[n])
         IN (IF r # None /\ r[1].ln = n THEN <<r[1].msg>> ELSE <<>>)
            \o LineRuleMsgs(n, k + 1)

\* the message a pass's dict holds for line n, as a list
PassMsgs(d, n) == IF DictHas(d, n) THEN <<DictGet(d, n)>> ELSE <<>>

IsPrefix(a, b) == Len(a) <= Len(b) /\ SubSeq(b, 1, Len(a)) = a

\* what the three passes give for line n
C10_Expected(n) ==
    LineRuleMsgs(n, 1)
    \o PassMsgs(blank_line_check(CurrentLines), n)
    \o PassMsgs(ast_checks(Parse(CurrentFile)), n)

C10_Merged ==
    AfterAst =>
        /\ \A n \in LineNumbers : MsgsAt(errors_in_file, n) = C10_Expected(n)
        /\ \A k \in 1..Len(errors_in_file) :
              /\ errors_in_file[k].key \in LineNumbers
              /\ errors_in_file[k].val # <<>>
              /\ \A m \in 1..Len(errors_in_file) :
                    errors_in_file[m].key = errors_in_file[k].key => m = k

C10_Kept ==
    pc \in {"blank_lines", "ast"} =>
        \A k \in 1..Len(errors_in_file) :
            IsPrefix(errors_in_file[k].val,
                     MsgsAt(errors_in_file', errors_in_file[k].key))

\* C10: after the three passes the list of line n holds the messages of the
\* line rules for n, then the blank_line_check message for n, then the
\* ast_checks message for n, every key has a non-empty list, and the second
\* and third pass only append to the lists already stored.
C10_Merge == []C10_Merged /\ [][C10_Kept]_vars

\* a line that got messages from all three passes
C10_Witness ==
    /\ AfterAst
    /\ \E n \in LineNumbers :
          /\ LineRuleMsgs(n, 1) # <<>>
          /\ DictHas(blank_line_check(CurrentLines), n)
          /\ DictHas(ast_checks(Parse(CurrentFile)), n)
          /\ Len(MsgsAt(errors_in_file, n)) >= 3

====
